---- MODULE Spec2Model ----
(***************************************************************************)
(* A model of the tutorial notebooks of learning_jax.                      *)
(*                                                                         *)
(*  - SpecNotebook: a notebook's code cells run top to bottom in a fresh   *)
(*    interpreter; every top-level statement reads and binds global names. *)
(*  - SpecVmap: convolve and its three batched forms (auto_vectorization). *)
(*  - SpecJit: jit-wrapped functions of the control-flow notebook: the     *)
(*    cache of compiled code, tracing with abstract values, static args.   *)
(*  - SpecCond: the Python equivalent of lax.cond and lax.cond itself.     *)
(*  - SpecWhile, SpecWhileFair: the Python equivalent of lax.while_loop    *)
(*    and lax.while_loop itself, one loop test or body call per step.      *)
(***************************************************************************)
EXTENDS Integers, Sequences, FiniteSets, TLC

VARIABLES
  nb, pc, env, status, unbound,   \* notebook run: notebook, next cell, globals, outcome
  vin, vout,                      \* convolve / vmap: the call's inputs and its result
  jfn, jcache, jcompiles, jcalls, jlast,  \* jit: wrapped function, compiled code by key,
                                  \* compilations, calls, last call
  jseen,                          \* history: the <<shape, dtype>> of the arguments called with
  cin, cout,                      \* cond: the call's inputs and its result
  wl                              \* while_loop: the running call (functions, val, position)

vars == <<nb, pc, env, status, unbound, vin, vout, jfn, jcache, jcompiles, jcalls, jlast,
         jseen, cin, cout, wl>>

nbVars   == <<nb, pc, env, status, unbound>>
vmapVars == <<vin, vout>>
jitVars  == <<jfn, jcache, jcompiles, jcalls, jlast, jseen>>
condVars == <<cin, cout>>
whileVars == <<wl>>

(***************************************************************************)
(* Notebooks.  A cell is the sequence of its top-level statements; a       *)
(* statement is the set of global names it reads (the names it loads       *)
(* itself and the free names of the notebook functions it runs) and the    *)
(* set of names it binds (import, def, class, assignment, loop target).    *)
(* Python's builtins (print, range, len, ...) are bound in every           *)
(* interpreter and are left out of the read sets.                          *)
(***************************************************************************)
St(r, b) == [reads |-> r, binds |-> b]

\* src/auto_differentiation.ipynb lines 1-343
AutoDifferentiation ==
  <<
    \* cell 1: lines 9-11
    << St({}, {"jax"}),
       St({}, {"jnp"}),
       St({}, {"grad"}) >>,
    \* cell 2: lines 36-37
    << St({"grad", "jnp"}, {"grad_tanh"}),
       St({"grad_tanh"}, {}) >>,
    \* cell 3: lines 62-63
    << St({"grad", "jnp"}, {}),
       St({"grad", "jnp"}, {}) >>,
    \* cell 4: lines 93-95
    << St({}, {"f"}),
       St({"f", "grad"}, {"dfdx"}) >>,
    \* cell 5: lines 115-124
    << St({"dfdx", "jax"}, {"d2fdx"}),
       St({"d2fdx", "jax"}, {"d3fdx"}),
       St({"d3fdx", "jax"}, {"d4fdx"}),
       St({"dfdx"}, {}),
       St({"d2fdx"}, {}),
       St({"d3fdx"}, {}),
       St({"d4fdx"}, {}) >>,
    \* cell 6: lines 140-155
    << St({"jax"}, {"key"}),
       St({}, {"sigmoid"}),
       St({}, {"predict"}),
       St({"jnp"}, {"inputs"}),
       St({"jnp"}, {"targets"}) >>,
    \* cell 7: lines 164-168
    << St({}, {"loss"}) >>,
    \* cell 8: lines 177-180
    << St({"jax", "key"}, {"W_key", "b_key", "key"}),
       St({"W_key", "jax"}, {"W"}),
       St({"b_key", "jax"}, {"b"}) >>,
    \* cell 9: lines 200-209
    << St({"W", "b", "grad", "inputs", "jnp", "loss", "predict", "sigmoid", "targets"}, {"W_grad"}),
       St({"W_grad"}, {}),
       St({"W", "b", "grad", "inputs", "jnp", "loss", "predict", "sigmoid", "targets"}, {"b_grad"}),
       St({"b_grad"}, {}),
       St({"W", "b", "grad", "inputs", "jnp", "loss", "predict", "sigmoid", "targets"}, {"W_grad", "b_grad"}),
       St({"W_grad"}, {}),
       St({"b_grad"}, {}) >>,
    \* cell 10: lines 235-240
    << St({}, {"loss2"}),
       St({"W", "b", "grad", "inputs", "jnp", "loss2", "predict", "sigmoid", "targets"}, {}) >>,
    \* cell 11: lines 266-269
    << St({"W", "b", "inputs", "jax", "jnp", "loss", "predict", "sigmoid", "targets"}, {"Wb_grad", "loss_value"}),
       St({"loss_value"}, {}),
       St({"Wb_grad"}, {}),
       St({"W", "b", "inputs", "jnp", "loss", "predict", "sigmoid", "targets"}, {}) >>,
    \* cell 12: lines 296-311
    << St({}, {"eps"}),
       St({"W", "b", "eps", "inputs", "jnp", "loss", "predict", "sigmoid", "targets"}, {"b_grad_numerical"}),
       St({"b_grad_numerical"}, {}),
       St({"W", "b", "grad", "inputs", "jnp", "loss", "predict", "sigmoid", "targets"}, {}),
       St({"jax", "key"}, {"key", "subkey"}),
       St({"W", "jax", "subkey"}, {"vec"}),
       St({"jnp", "vec"}, {"unitvec"}),
       St({"W", "b", "eps", "inputs", "jnp", "loss", "predict", "sigmoid", "targets", "unitvec"}, {"W_grad_numerical"}),
       St({"W_grad_numerical"}, {}),
       St({"W", "b", "grad", "inputs", "jnp", "loss", "predict", "sigmoid", "targets", "unitvec"}, {}) >>,
    \* cell 13: lines 319-319
    << >>
  >>

\* src/auto_vectorization.ipynb lines 1-258
AutoVectorization ==
  <<
    \* cell 1: lines 27-39
    << St({}, {"jax"}),
       St({}, {"jnp"}),
       St({"jnp"}, {"x"}),
       St({"jnp"}, {"w"}),
       St({}, {"convolve"}),
       St({"convolve", "jnp", "w", "x"}, {}) >>,
    \* cell 2: lines 67-76
    << St({"jnp", "x"}, {"xs"}),
       St({"jnp", "w"}, {"ws"}),
       St({}, {"manually_batched_convolve"}),
       St({"convolve", "jnp", "manually_batched_convolve", "ws", "xs"}, {}) >>,
    \* cell 3: lines 97-104
    << St({}, {"manually_vectorized_convolve"}),
       St({"jnp", "manually_vectorized_convolve", "ws", "xs"}, {}) >>,
    \* cell 4: lines 132-133
    << St({"convolve", "jax", "jnp"}, {"auto_batch_convolve"}),
       St({"auto_batch_convolve", "ws", "xs"}, {}) >>,
    \* cell 5: lines 164-168
    << St({"convolve", "jax", "jnp"}, {"auto_batch_convolve2"}),
       St({"jnp", "xs"}, {"xst"}),
       St({"jnp", "ws"}, {"wst"}),
       St({"auto_batch_convolve2", "wst", "xst"}, {}) >>,
    \* cell 6: lines 196-197
    << St({"convolve", "jax", "jnp"}, {"batch_convolve3"}),
       St({"batch_convolve3", "w", "xs"}, {}) >>,
    \* cell 7: lines 225-226
    << St({"convolve", "jax", "jnp"}, {"jitted_batch_convolve"}),
       St({"jitted_batch_convolve", "ws", "xs"}, {}) >>,
    \* cell 8: lines 234-234
    << >>
  >>

\* src/auto_vectorization.ipynb lines 260-933
IntroJax ==
  <<
    \* cell 1: lines 268-283
    << St({}, {"os"}),
       St({}, {"math"}),
       St({}, {"np"}),
       St({}, {"plt"}),
       St({}, {"matplotlib"}),
       St({}, {"set_matplotlib_formats"}),
       St({}, {"to_rgba"}),
       St({"matplotlib"}, {}),
       St({}, {"sns"}),
       St({"sns"}, {}),
       St({"sns"}, {}),
       St({}, {"time"}),
       St({}, {"tqdm"}) >>,
    \* cell 2: lines 307-309
    << St({}, {"jax"}),
       St({}, {"jnp"}),
       St({"jax"}, {}) >>,
    \* cell 3: lines 327-330
    << St({"jnp"}, {"a"}),
       St({"a"}, {}) >>,
    \* cell 4: lines 347-349
    << St({"jnp"}, {"b"}),
       St({"b"}, {}) >>,
    \* cell 5: lines 369-369
    << St({"b"}, {}) >>,
    \* cell 6: lines 396-396
    << St({"b"}, {}) >>,
    \* cell 7: lines 413-416
    << St({"b", "jax"}, {"b_cpu"}),
       St({"b_cpu"}, {}) >>,
    \* cell 8: lines 433-437
    << St({"b_cpu", "jax"}, {"b_gpu"}),
       St({"b_gpu"}, {}) >>,
    \* cell 9: lines 464-464
    << St({"b_cpu", "b_gpu"}, {}) >>,
    \* cell 10: lines 500-502
    << St({"b"}, {"b_new"}),
       St({"b"}, {}),
       St({"b_new"}, {}) >>,
    \* cell 11: lines 522-522
    << St({"jax"}, {"rng"}) >>,
    \* cell 12: lines 542-554
    << St({"jax", "rng"}, {"jax_random_number_1"}),
       St({"jax", "rng"}, {"jax_random_number_2"}),
       St({"jax_random_number_1"}, {}),
       St({"jax_random_number_2"}, {}),
       St({"np"}, {}),
       St({"np"}, {"np_random_number_1"}),
       St({"np"}, {"np_random_number_2"}),
       St({"np_random_number_1"}, {}),
       St({"np_random_number_2"}, {}) >>,
    \* cell 13: lines 579-583
    << St({"jax", "rng"}, {"rng", "subkey1", "subkey2"}),
       St({"jax", "subkey1"}, {"jax_random_number_1"}),
       St({"jax", "subkey2"}, {"jax_random_number_2"}),
       St({"jax_random_number_1"}, {}),
       St({"jax_random_number_2"}, {}) >>,
    \* cell 14: lines 614-623
    << St({}, {"simple_graph"}),
       St({"jnp"}, {"inp"}),
       St({"inp"}, {}),
       St({"inp", "simple_graph"}, {}) >>,
    \* cell 15: lines 649-653
    << St({"inp", "jax", "simple_graph"}, {}) >>,
    \* cell 16: lines 677-689
    << St({}, {"global_list"}),
       St({}, {"norm"}),
       St({"global_list", "inp", "jax", "jnp", "norm"}, {}) >>,
    \* cell 17: lines 715-717
    << St({"jax", "simple_graph"}, {"grad_function"}),
       St({"grad_function", "inp"}, {"gradients"}),
       St({"gradients"}, {}) >>,
    \* cell 18: lines 748-749
    << St({"grad_function", "inp", "jax"}, {}) >>,
    \* cell 19: lines 777-778
    << St({"jax", "simple_graph"}, {"val_grad_function"}),
       St({"inp", "val_grad_function"}, {}) >>,
    \* cell 20: lines 798-798
    << St({"jax", "simple_graph"}, {"jitted_function"}) >>,
    \* cell 21: lines 807-812
    << St({"jax", "rng"}, {"normal_rng", "rng"}),
       St({"jax", "normal_rng"}, {"large_input"}),
       St({"jitted_function", "large_input"}, {"_"}) >>,
    \* cell 22: lines 829-830
    << St({"large_input", "simple_graph"}, {}) >>,
    \* cell 23: lines 847-848
    << St({"jitted_function", "large_input"}, {}) >>,
    \* cell 24: lines 864-865
    << St({"grad_function", "jax"}, {"jitted_grad_function"}),
       St({"jitted_grad_function", "large_input"}, {"_"}) >>,
    \* cell 25: lines 882-883
    << St({"grad_function", "large_input"}, {}) >>,
    \* cell 26: lines 900-901
    << St({"jitted_grad_function", "large_input"}, {}) >>,
    \* cell 27: lines 909-909
    << >>
  >>

\* src/gradient_checkpoint.ipynb lines 1-453
GradientCheckpoint ==
  <<
    \* cell 1: lines 34-57
    << St({}, {"jax"}),
       St({}, {"jax"}),
       St({}, {"jnp"}),
       St({}, {"g"}),
       St({}, {"f"}),
       St({"jnp"}, {"W1"}),
       St({"jnp"}, {"W2"}),
       St({"jnp"}, {"W3"}),
       St({"jnp"}, {"x"}),
       St({}, {"print_saved_residuals"}),
       St({"W1", "W2", "W3", "f", "g", "jax", "jnp", "x"}, {}) >>,
    \* cell 2: lines 86-91
    << St({}, {"f2"}),
       St({"W1", "W2", "W3", "f2", "g", "jax", "jnp", "x"}, {}) >>,
    \* cell 3: lines 123-124
    << St({"f", "g", "jax", "jnp"}, {"f3"}),
       St({"W1", "W2", "W3", "f3", "jax", "x"}, {}) >>,
    \* cell 4: lines 152-161
    << St({}, {"checkpoint_name"}),
       St({}, {"f4"}),
       St({"checkpoint_name", "f4", "g", "jax", "jnp"}, {"f4"}),
       St({"W1", "W2", "W3", "f4", "jax", "x"}, {}) >>,
    \* cell 5: lines 177-212
    << St({}, {"tree_flatten", "tree_unflatten"}),
       St({}, {"Console"}),
       St({}, {"rich"}),
       St({}, {"Table"}),
       St({}, {"rich"}),
       St({}, {"print_fwd_bwd"}),
       St({}, {"_renderable_repr"}),
       St({"_renderable_repr", "rich"}, {}) >>,
    \* cell 6: lines 299-300
    << St({"Console", "Table", "W1", "W2", "W3", "f", "g", "jax", "jnp", "print_fwd_bwd", "rich", "tree_flatten", "tree_unflatten", "x"}, {}) >>,
    \* cell 7: lines 411-412
    << St({"Console", "Table", "W1", "W2", "W3", "f3", "jax", "print_fwd_bwd", "rich", "tree_flatten", "tree_unflatten", "x"}, {}) >>,
    \* cell 8: lines 429-429
    << >>
  >>

\* src/gradient_checkpoint.ipynb lines 455-1082
Pytrees ==
  <<
    \* cell 1: lines 483-484
    << St({}, {"jax"}),
       St({}, {"jnp"}) >>,
    \* cell 2: lines 505-516
    << St({"jnp"}, {"example_trees"}),
       St({"example_trees", "jax"}, {"leaves", "pytree"}) >>,
    \* cell 3: lines 550-556
    << St({}, {"list_of_lists"}),
       St({"jax", "list_of_lists"}, {}) >>,
    \* cell 4: lines 585-586
    << St({"list_of_lists"}, {"another_list"}),
       St({"another_list", "jax", "list_of_lists"}, {}) >>,
    \* cell 5: lines 602-611
    << St({}, {"np"}),
       St({}, {"init_mlp_params"}),
       St({"init_mlp_params", "np"}, {"params"}) >>,
    \* cell 6: lines 633-634
    << St({"jax", "params"}, {}) >>,
    \* cell 7: lines 643-670
    << St({}, {"forward"}),
       St({}, {"loss_fn"}),
       St({}, {"lr"}),
       St({"jax"}, {"update"}) >>,
    \* cell 8: lines 697-705
    << St({}, {"Special"}),
       St({"Special", "jax"}, {}) >>,
    \* cell 9: lines 714-720
    << >>,
    \* cell 10: lines 736-776
    << St({}, {"register_pytree_node"}),
       St({"Special"}, {"RegisteredSpecial"}),
       St({}, {"special_flatten"}),
       St({}, {"special_unflatten"}),
       St({"RegisteredSpecial", "register_pytree_node", "special_flatten", "special_unflatten"}, {}) >>,
    \* cell 11: lines 796-800
    << St({"RegisteredSpecial", "jax"}, {}) >>,
    \* cell 12: lines 827-837
    << St({}, {"Any", "NamedTuple"}),
       St({"Any", "NamedTuple"}, {"MyOtherContainer"}),
       St({"MyOtherContainer", "jax"}, {}) >>,
    \* cell 13: lines 870-886
    << St({}, {"dataclass"}),
       St({}, {"functools"}),
       St({"Any", "dataclass", "functools", "jax"}, {"MyDataclassContainer"}),
       St({"MyDataclassContainer", "jax", "jnp"}, {}) >>,
    \* cell 14: lines 906-912
    << St({}, {"vmap"}) >>,
    \* cell 15: lines 947-954
    << St({}, {"collections"}),
       St({"collections"}, {"ATuple"}),
       St({"ATuple"}, {"tree"}),
       St({"jax", "tree"}, {"_", "flattened"}),
       St({"flattened", "jax"}, {"key_path", "value"}) >>,
    \* cell 16: lines 982-983
    << St({"flattened", "jax"}, {"_", "key_path"}) >>,
    \* cell 17: lines 1020-1026
    << St({}, {"tree_transpose"}),
       St({}, {"episode_steps"}),
       St({"episode_steps", "jax", "tree_transpose"}, {}) >>,
    \* cell 18: lines 1046-1050
    << St({"episode_steps", "jax"}, {}) >>,
    \* cell 19: lines 1058-1058
    << >>
  >>

\* src/unnamed/part_000 lines 1-418
HigherOrderDerivatives ==
  <<
    \* cell 1: lines 9-14
    << St({}, {"jax"}),
       St({}, {"jnp"}),
       St({}, {"grad", "jit", "vmap"}),
       St({}, {"random"}),
       St({"random"}, {"key"}) >>,
    \* cell 2: lines 45-50
    << St({}, {"hessian"}),
       St({}, {"f"}),
       St({"f", "hessian", "jax", "jnp"}, {}) >>,
    \* cell 3: lines 66-72
    << St({}, {"meta_loss_fn"}),
       St({"data", "jax", "loss_fn", "lr", "meta_loss_fn", "params"}, {"meta_grads"}) >>,
    \* cell 4: lines 108-115
    << St({}, {"value_fn"}),
       St({"jnp"}, {"theta"}),
       St({"jnp"}, {"s_tm1"}),
       St({"jnp"}, {"r_t"}),
       St({"jnp"}, {"s_t"}) >>,
    \* cell 5: lines 135-143
    << St({}, {"td_loss"}),
       St({"jax", "jnp", "td_loss", "value_fn"}, {"td_update"}),
       St({"r_t", "s_t", "s_tm1", "td_update", "theta"}, {"delta_theta"}),
       St({"delta_theta"}, {}) >>,
    \* cell 6: lines 163-166
    << St({"jax", "jnp", "s_tm1", "theta", "value_fn"}, {"s_grad"}),
       St({"jnp", "r_t", "s_grad", "s_t", "s_tm1", "theta", "value_fn"}, {"delta_theta"}),
       St({"delta_theta"}, {}) >>,
    \* cell 7: lines 197-211
    << St({}, {"f"}),
       St({}, {"straight_through_f"}),
       St({"f", "jnp"}, {}),
       St({"f", "jax", "jnp", "straight_through_f"}, {}),
       St({"f", "jax", "jnp"}, {}),
       St({"f", "jax", "jnp", "straight_through_f"}, {}) >>,
    \* cell 8: lines 229-230
    << St({}, {"hvp"}) >>,
    \* cell 9: lines 263-295
    << St({}, {"jacfwd", "jacrev"}),
       St({}, {"sigmoid"}),
       St({}, {"predict"}),
       St({"jnp"}, {"inputs"}),
       St({"key", "random"}, {"W_key", "b_key", "key"}),
       St({"W_key", "random"}, {"W"}),
       St({"b_key", "random"}, {"b"}),
       St({}, {"f"}),
       St({"W", "b", "f", "inputs", "jacfwd", "jnp", "predict", "sigmoid"}, {"J"}),
       St({"J"}, {}),
       St({"J"}, {}),
       St({"W", "b", "f", "inputs", "jacrev", "jnp", "predict", "sigmoid"}, {"J"}),
       St({"J"}, {}),
       St({"J"}, {}) >>,
    \* cell 10: lines 332-340
    << St({}, {"predict_dic"}),
       St({"W", "b", "inputs", "jacrev", "jnp", "predict", "predict_dic", "sigmoid"}, {"J_dict"}),
       St({"J_dict"}, {"k", "v"}) >>,
    \* cell 11: lines 381-386
    << St({}, {"hessian"}),
       St({"W", "b", "f", "hessian", "inputs", "jacfwd", "jacrev", "jnp", "predict", "sigmoid"}, {"H"}),
       St({"H"}, {}),
       St({"H"}, {}) >>,
    \* cell 12: lines 394-394
    << >>
  >>

\* src/unnamed/part_001 lines 1-609
ControlFlow ==
  <<
    \* cell 1: lines 18-19
    << St({}, {"grad", "jit"}),
       St({}, {"jnp"}) >>,
    \* cell 2: lines 36-41
    << St({"jit"}, {"f"}),
       St({"f"}, {}) >>,
    \* cell 3: lines 58-64
    << St({"jit"}, {"g"}),
       St({"g", "jnp"}, {}) >>,
    \* cell 4: lines 73-86
    << >>,
    \* cell 5: lines 117-126
    << St({"jit"}, {"f"}),
       St({"f", "jnp"}, {"result1"}),
       St({"result1"}, {}),
       St({"f", "jnp"}, {"result2"}),
       St({"result2"}, {}) >>,
    \* cell 6: lines 144-151
    << >>,
    \* cell 7: lines 182-190
    << St({}, {"f"}),
       St({"f", "jit"}, {"f"}),
       St({"f"}, {}) >>,
    \* cell 8: lines 214-224
    << St({}, {"f"}),
       St({"f", "jit"}, {"f_jitted"}),
       St({"f_jitted", "jnp"}, {"result"}),
       St({"result"}, {}) >>,
    \* cell 9: lines 247-252
    << St({}, {"cond"}) >>,
    \* cell 10: lines 272-276
    << St({}, {"lax"}),
       St({"jnp"}, {"operand"}),
       St({"lax", "operand"}, {}),
       St({"lax", "operand"}, {}) >>,
    \* cell 11: lines 300-305
    << St({"jnp"}, {"condition"}),
       St({"jnp"}, {"on_true"}),
       St({"jnp"}, {"on_false"}),
       St({"condition", "lax", "on_false", "on_true"}, {"result"}),
       St({"result"}, {}) >>,
    \* cell 12: lines 329-340
    << St({}, {"f1"}),
       St({}, {"f2"}),
       St({}, {"f3"}),
       St({}, {"index"}),
       St({}, {"x"}),
       St({"f1", "f2", "f3", "index", "lax", "x"}, {"result"}),
       St({"result"}, {}) >>,
    \* cell 13: lines 364-370
    << St({"jnp"}, {"condition"}),
       St({"jnp"}, {"on_true"}),
       St({"jnp"}, {"on_false"}),
       St({"condition", "jnp", "on_false", "on_true"}, {"result"}),
       St({"result"}, {}) >>,
    \* cell 14: lines 394-400
    << St({"jnp"}, {"x"}),
       St({"x"}, {"conditions"}),
       St({}, {"functions"}),
       St({"conditions", "functions", "jnp", "x"}, {"result"}),
       St({"result"}, {}) >>,
    \* cell 15: lines 416-422
    << St({}, {"while_loop"}) >>,
    \* cell 16: lines 439-444
    << St({}, {"init_val"}),
       St({}, {"condition"}),
       St({}, {"function_body"}),
       St({"condition", "function_body", "init_val", "lax"}, {"result"}),
       St({"result"}, {}) >>,
    \* cell 17: lines 460-465
    << St({}, {"fori_loop"}) >>,
    \* cell 18: lines 485-489
    << St({}, {"init_val"}),
       St({}, {"start"}),
       St({}, {"stop"}),
       St({}, {"function_body"}),
       St({"function_body", "init_val", "lax", "start", "stop"}, {}) >>,
    \* cell 19: lines 516-526
    << St({}, {"python_check_positive_even"}),
       St({"jit"}, {"jax_check_positive_even"}),
       St({"python_check_positive_even"}, {}),
       St({"jax_check_positive_even", "jnp"}, {}) >>,
    \* cell 20: lines 543-545
    << St({"jnp"}, {"x"}),
       St({"jax_check_positive_even", "jnp", "x"}, {}) >>,
    \* cell 21: lines 570-577
    << St({}, {"f"}),
       St({"f", "grad"}, {}),
       St({"f", "grad"}, {}) >>,
    \* cell 22: lines 585-585
    << >>
  >>

Notebooks ==
  [AutoDifferentiation    |-> AutoDifferentiation,
   AutoVectorization      |-> AutoVectorization,
   IntroJax               |-> IntroJax,
   GradientCheckpoint     |-> GradientCheckpoint,
   Pytrees                |-> Pytrees,
   HigherOrderDerivatives |-> HigherOrderDerivatives,
   ControlFlow            |-> ControlFlow]

NotebookNames == DOMAIN Notebooks

\* The statements of a cell run in order against the globals e; a statement
\* that reads a name not in e raises NameError and ends the cell, the
\* bindings made before it staying in place.
RECURSIVE RunStatements(_, _)
RunStatements(e, stmts) ==
  IF stmts = << >> THEN [env |-> e, unbound |-> {}]
  ELSE LET s == Head(stmts) IN
       IF s.reads \subseteq e
         THEN RunStatements(e \cup s.binds, Tail(stmts))
         ELSE [env |-> e, unbound |-> s.reads \ e]

\* Every name some other notebook binds somewhere.
BoundElsewhere(n) ==
  UNION { UNION { UNION { Notebooks[m][c][s].binds : s \in DOMAIN Notebooks[m][c] }
                  : c \in DOMAIN Notebooks[m] }
          : m \in NotebookNames \ {n} }

(***************************************************************************)
(* auto_vectorization: convolve and its batched forms.  A 1-D array is a   *)
(* sequence, a 2-D array the sequence of its rows (axis 0).  Python index  *)
(* i is position i + 1.  A result is [err, val]: err names the exception   *)
(* the call raised ("none" when it returned val).                          *)
(***************************************************************************)
MaxBatch  == 3    \* rows of a batch
MaxRowLen == 4    \* length of an input vector
MaxCells  == 8    \* elements of a batch (rows * length)

Elems   == {0, 1}
ExampleX == <<0, 1, 2, 3, 4>>               \* x = jnp.arange(5)
ExampleW == <<2, 3, 4>>                     \* w = jnp.array([2., 3., 4.])
Weights == {ExampleW, <<1, -1, 2>>}

Min(a, b) == IF a < b THEN a ELSE b
Max(a, b) == IF a > b THEN a ELSE b

Ok(v)   == [err |-> "none", val |-> v]
Err(e)  == [err |-> e, val |-> << >>]

\* range(a, b)
PyRange(a, b) == {i \in a..(b - 1) : TRUE}

\* x[a:b] for 0 <= a: Python clips the end of a slice to len(x).
PySlice(x, a, b) == SubSeq(x, a + 1, Min(b, Len(x)))

RECURSIVE SumSeq(_)
SumSeq(v) == IF v = << >> THEN 0 ELSE Head(v) + SumSeq(Tail(v))

\* jnp.dot of two 1-D arrays: the lengths must agree.
Dot(u, v) ==
  IF Len(u) # Len(v) THEN Err("TypeError")
  ELSE Ok(SumSeq([k \in 1..Len(u) |-> u[k] * v[k]]))

\* The result of a list of results: the first error, else the list of values.
Collect(rs) ==
  IF \E k \in DOMAIN rs : rs[k].err # "none"
    THEN Err(rs[CHOOSE k \in DOMAIN rs :
                  rs[k].err # "none" /\ \A m \in 1..(k - 1) : rs[m].err = "none"].err)
    ELSE Ok([k \in DOMAIN rs |-> rs[k].val])

\* jnp.stack(arrays) along axis 0: needs at least one array.
Stack(rs) == IF rs = << >> THEN Err("ValueError") ELSE Collect(rs)

\* jnp.transpose of a 2-D array with at least one row.
Transpose(m) == [c \in 1..Len(m[1]) |-> [r \in 1..Len(m) |-> m[r][c]]]

\* for i in range(1, len(x) - 1)
ConvolveRangeOffByOne(x) == PyRange(1, Len(x))
ConvolveRange(x) == PyRange(1, Len(x) - 1)

\* The indices of x the loop of convolve asks for: i-1, i, i+1 for each i.
ConvolveReads(x) == UNION { (i - 1)..(i + 1) : i \in ConvolveRange(x) }

\* def convolve(x, w): output[i - 1] = jnp.dot(x[i-1:i+2], w); jnp.array(output)
Convolve(x, w) ==
  LET is == ConvolveRange(x)
      n  == Cardinality(is)
  IN Collect([j \in 1..n |-> Dot(PySlice(x, j - 1, j + 2), w)])

\* def manually_batched_convolve(xs, ws): one convolve per row, stacked.
ManuallyBatchedConvolve(xs, ws) ==
  Stack([i \in 1..Len(xs) |-> Convolve(xs[i], ws[i])])

\* xs[:, a:b]
ColSlice(xs, a, b) == [r \in 1..Len(xs) |-> PySlice(xs[r], a, b)]

\* a * b for two 2-D arrays of one shape (no broadcasting is modelled).
Mul(a, b) ==
  IF Len(a) # Len(b) \/ \E r \in 1..Len(a) : Len(a[r]) # Len(b[r])
    THEN Err("TypeError")
    ELSE Ok([r \in 1..Len(a) |-> [c \in 1..Len(a[r]) |-> a[r][c] * b[r][c]]])

\* jnp.sum(m, axis=1)
SumAxis1(m) ==
  IF m.err # "none" THEN m ELSE Ok([r \in 1..Len(m.val) |-> SumSeq(m.val[r])])

\* for i in range(1, xs.shape[1] - 1)
VectorizedRangeOffByOne(xs) == PyRange(1, Len(xs[1]))
VectorizedRange(xs) == PyRange(1, Len(xs[1]) - 1)

\* jnp.stack(output, axis=1): output[i] becomes column i.
StackAxis1(rs) ==
  LET st == Stack(rs) IN
  IF st.err # "none" THEN st ELSE Ok(Transpose(st.val))

\* def manually_vectorized_convolve(xs, ws): one window of all rows at a time.
ManuallyVectorizedConvolve(xs, ws) ==
  LET n == Cardinality(VectorizedRange(xs)) IN
  StackAxis1([j \in 1..n |-> SumAxis1(Mul(ColSlice(xs, j - 1, j + 2), ws))])

\* jax.vmap runs the function once on batch tracers: a tracer carries the
\* whole batch (val) and the physical axis the batch lies on (bdim); the
\* function sees the logical array, without that axis.
Tracer(v, d) == [val |-> v, bdim |-> d]

\* len(x) of a traced vector, and the size of its batch.
TracedLen(X)  == IF X.bdim = 0 THEN Len(X.val[1]) ELSE Len(X.val)
BatchSize(X)  == IF X.bdim = 0 THEN Len(X.val) ELSE Len(X.val[1])

\* Element k of the batch of a traced vector.
BatchElem(X, k) ==
  IF X.bdim = 0 THEN X.val[k] ELSE [i \in 1..Len(X.val) |-> X.val[i][k]]

\* x[a:b] of a traced vector slices the logical axis.
TracedSlice(X, a, b) ==
  IF X.bdim = 0 THEN Tracer(ColSlice(X.val, a, b), 0)
  ELSE Tracer(PySlice(X.val, a, b), 1)

\* jnp.dot of two traced vectors: one dot per element of the batch.
TracedDot(X, W) ==
  Collect([k \in 1..BatchSize(W) |-> Dot(BatchElem(X, k), BatchElem(W, k))])

\* The body of convolve on tracers: jnp.array(output) of the traced scalars
\* is a traced vector whose batch lies on physical axis 1.
TracedConvolve(X, W) ==
  LET n == Cardinality(PyRange(1, TracedLen(X) - 1)) IN
  Collect([j \in 1..n |-> TracedDot(TracedSlice(X, j - 1, j + 2), W)])

\* vmap moves the batch axis of the output (physical axis 1) to out_axes; an
\* output that does not depend on the batch (the empty array) is broadcast.
MoveBatchAxisIgnoringOutAxes(out, b, out_axes) ==
  IF out.err # "none" THEN out
  ELSE IF out.val = << >> THEN Ok([k \in 1..b |-> << >>])
  ELSE Ok(Transpose(out.val))
MoveBatchAxis(out, b, out_axes) ==
  IF out.err # "none" THEN out
  ELSE IF out.val = << >>
    THEN (IF out_axes = 0 THEN Ok([k \in 1..b |-> << >>]) ELSE Ok(<< >>))
  ELSE IF out_axes = 0 THEN Ok(Transpose(out.val)) ELSE out

\* jax.vmap(convolve, in_axes, out_axes)(xs, ws)
VmapConvolve(xs, ws, in_axes, out_axes) ==
  LET X == Tracer(xs, in_axes)
      W == Tracer(ws, in_axes)
  IN MoveBatchAxis(TracedConvolve(X, W), BatchSize(W), out_axes)

\* auto_batch_convolve = jax.vmap(convolve)
AutoBatchConvolve(xs, ws) == VmapConvolve(xs, ws, 0, 0)

\* auto_batch_convolve2 = jax.vmap(convolve, in_axes=1, out_axes=1)
AutoBatchConvolve2(xst, wst) == VmapConvolve(xst, wst, 1, 1)

Vectors == (UNION { [1..n -> Elems] : n \in 0..MaxRowLen }) \cup {ExampleX}

SingleInputs == { [kind |-> "single", x |-> x, w |-> w] : x \in Vectors, w \in Weights }

BatchShapes == { sh \in (1..MaxBatch) \X (0..MaxRowLen) : sh[1] * sh[2] <= MaxCells }

BatchInputs ==
  (UNION { { [kind |-> "batch", xs |-> xs, ws |-> ws] :
               xs \in [1..sh[1] -> [1..sh[2] -> Elems]], ws \in [1..sh[1] -> Weights] }
           : sh \in BatchShapes })
  \cup { [kind |-> "batch", xs |-> <<ExampleX, ExampleX>>, ws |-> <<ExampleW, ExampleW>>] }

(***************************************************************************)
(* Control flow and jit (part_001).  A runtime argument is an array: its   *)
(* shape (<< >> for a scalar, <<n>> for a vector), its dtype and its data. *)
(* While a function body runs, a value is either concrete or a tracer; a   *)
(* tracer stands for every array of its shape and dtype (ShapedArray) and  *)
(* records the operations applied to it: base (the argument, or a          *)
(* constant) and ops.                                                      *)
(***************************************************************************)
MaxLen   == 3     \* length of a vector argument
MaxX     == 4     \* largest scalar argument
MaxCalls == 3     \* calls of one jit-wrapped function

Scalar(v, dt) == [shape |-> << >>, dtype |-> dt, data |-> <<v>>]
Vector(d, dt) == [shape |-> <<Len(d)>>, dtype |-> dt, data |-> d]

Concrete(a) ==
  [kind |-> "concrete", shape |-> a.shape, dtype |-> a.dtype, data |-> a.data,
   base |-> [src |-> "none", v |-> 0], ops |-> << >>]

\* ShapedArray(shape, dtype): what jit keeps of a non-static argument.
AbstractValueWithData(a) == [shape |-> a.shape, dtype |-> a.dtype, data |-> a.data]
AbstractValue(a) == [shape |-> a.shape, dtype |-> a.dtype]

\* The tracer jit passes to the function for a non-static argument.
TracerArg(a) ==
  [kind |-> "tracer", shape |-> a.shape, dtype |-> a.dtype, data |-> << >>,
   base |-> [src |-> "arg", v |-> 0], ops |-> << >>]

\* A static argument is part of the cache key by its value.
StaticValueIgnored(v) == [static |-> 0]
StaticValue(v) == [static |-> v]

Promote(d1, d2) == IF d1 = "float" \/ d2 = "float" THEN "float" ELSE "int"

Op(o, k) == [op |-> o, k |-> k]

\* c * x for a Python number c
PyMulC(c, dtc, x) ==
  IF x.kind = "concrete"
    THEN [x EXCEPT !.data = [i \in 1..Len(x.data) |-> c * x.data[i]],
                   !.dtype = Promote(dtc, x.dtype)]
    ELSE [x EXCEPT !.ops = Append(x.ops, Op("mul", c)), !.dtype = Promote(dtc, x.dtype)]

\* x ** 2
PyPow2(x) ==
  IF x.kind = "concrete"
    THEN [x EXCEPT !.data = [i \in 1..Len(x.data) |-> x.data[i] * x.data[i]]]
    ELSE [x EXCEPT !.ops = Append(x.ops, Op("pow", 2))]

\* y + x[i] for a scalar y (a Python float, or the sum so far) and a vector x
PyAddIndex(y, x, i) ==
  IF x.kind = "concrete"
    THEN [y EXCEPT !.data = <<y.data[1] + x.data[i + 1]>>,
                   !.dtype = Promote(y.dtype, x.dtype)]
    ELSE [kind |-> "tracer", shape |-> << >>, dtype |-> Promote(y.dtype, x.dtype),
          data |-> << >>,
          base |-> IF y.kind = "concrete" THEN [src |-> "const", v |-> y.data[1]] ELSE y.base,
          ops |-> Append(y.ops, Op("add_index", i))]

\* x < c and x > c for a scalar x: a comparison of a tracer is a tracer,
\* ShapedArray((), bool), of unknown value.
BoolOf(x, b) ==
  IF x.kind = "concrete"
    THEN [kind |-> "concrete", b |-> b]
    ELSE [kind |-> "tracer", b |-> FALSE]
PyLe(x, c) == BoolOf(x, x.kind = "concrete" /\ x.data[1] <= c)
PyLt(x, c) == BoolOf(x, x.kind = "concrete" /\ x.data[1] < c)
PyGt(x, c) == BoolOf(x, x.kind = "concrete" /\ x.data[1] > c)

\* bool(v), which `if` and `and` call: a tracer has no truth value.
PyBoolGuessesTrue(v) ==
  IF v.kind = "tracer" THEN [err |-> "none", b |-> TRUE] ELSE [err |-> "none", b |-> v.b]
PyBool(v) ==
  IF v.kind = "tracer"
    THEN [err |-> "TracerBoolConversionError", b |-> FALSE]
    ELSE [err |-> "none", b |-> v.b]

Returned(v) == [err |-> "none", v |-> v]
Raised(e)   == [err |-> e, v |-> << >>]

\* def f(x): for i in range(3): x = 2*x; return x
FDoubleBody(x) == Returned(PyMulC(2, "int", PyMulC(2, "int", PyMulC(2, "int", x))))

\* y = 0.; for i in range(k): y = y + x[i]     (the first k turns of the loop)
RECURSIVE SumLoop(_, _)
SumLoop(x, k) ==
  IF k <= 0 THEN Concrete(Scalar(0, "float"))
  ELSE PyAddIndex(SumLoop(x, k - 1), x, k - 1)

\* def g(x): y = 0.; for i in range(x.shape[0]): y = y + x[i]; return y
GSumBody(x) == Returned(SumLoop(x, x.shape[1]))

\* def f(x): return x ** 2
FSquareBody(x) == Returned(PyPow2(x))

\* def f(x): if x < 3: return 3. * x ** 2  else: return -4 * x
FBranchBody(x) ==
  LET t == PyBool(PyLt(x, 3)) IN
  IF t.err # "none" THEN Raised(t.err)
  ELSE IF t.b THEN Returned(PyMulC(3, "float", PyPow2(x)))
  ELSE Returned(PyMulC(-4, "int", x))

\* def g(x): return (x > 0) and (x < 3)      (`and` asks bool(x > 0) first)
GAndBody(x) ==
  LET t == PyBool(PyGt(x, 0)) IN
  IF t.err # "none" THEN Raised(t.err)
  ELSE IF ~t.b THEN Returned([x EXCEPT !.data = <<0>>, !.dtype = "bool"])
  ELSE Returned([x EXCEPT !.data = <<IF PyLt(x, 3).b THEN 1 ELSE 0>>, !.dtype = "bool"])

\* def f(x, n): y = 0.0; for i in range(n): y = y + x[i]; return y
FLoopBody(x, n) == Returned(SumLoop(x, n))

JitFunctions == {"f_double", "g_sum", "f_square", "f_branch", "g_and", "f_static", "f_loop"}

\* jit(f, static_argnames='x') and jit(f, static_argnames='n')
StaticX(fn) == fn = "f_static"
StaticN(fn) == fn = "f_loop"

Body(fn, x, n) ==
  CASE fn = "f_double" -> FDoubleBody(x)
    [] fn = "g_sum"    -> GSumBody(x)
    [] fn = "f_square" -> FSquareBody(x)
    [] fn = "f_branch" -> FBranchBody(x)
    [] fn = "g_and"    -> GAndBody(x)
    [] fn = "f_static" -> FBranchBody(x)
    [] fn = "f_loop"   -> FLoopBody(x, n)

\* The function called without jit, on concrete values.
PyResult(r) ==
  IF r.err # "none" THEN [err |-> r.err, data |-> << >>, dtype |-> "none"]
  ELSE [err |-> "none", data |-> r.v.data, dtype |-> r.v.dtype]
PyEval(fn, args) == PyResult(Body(fn, Concrete(args.x), args.n))

\* The key of a call in the cache of compiled code.
KeyOf(fn, args) ==
  CASE StaticX(fn) -> <<StaticValue(args.x.data[1])>>
    [] StaticN(fn) -> <<AbstractValue(args.x), StaticValue(args.n)>>
    [] OTHER       -> <<AbstractValue(args.x)>>

\* Tracing: the Python body runs once, on tracers for the non-static
\* arguments; what it returns becomes the compiled code (a jaxpr).
Trace(fn, args) ==
  LET r == Body(fn, IF StaticX(fn) THEN Concrete(args.x) ELSE TracerArg(args.x), args.n) IN
  IF r.err # "none" THEN [err |-> r.err, jaxpr |-> << >>]
  ELSE [err |-> "none",
        jaxpr |-> [base  |-> IF r.v.kind = "concrete"
                               THEN [src |-> "const", v |-> r.v.data[1]] ELSE r.v.base,
                   ops   |-> r.v.ops,
                   dtype |-> r.v.dtype]]

\* Running compiled code on the data of the argument.
ExecOp(acc, o, x) ==
  CASE o.op = "mul"       -> [i \in 1..Len(acc) |-> acc[i] * o.k]
    [] o.op = "pow"       -> [i \in 1..Len(acc) |-> acc[i] * acc[i]]
    [] o.op = "add_index" -> <<acc[1] + x.data[o.k + 1]>>

RECURSIVE ExecOps(_, _, _)
ExecOps(acc, ops, x) ==
  IF ops = << >> THEN acc ELSE ExecOps(ExecOp(acc, Head(ops), x), Tail(ops), x)

Exec(jaxpr, x) ==
  [err |-> "none",
   data |-> ExecOps(IF jaxpr.base.src = "arg" THEN x.data ELSE <<jaxpr.base.v>>, jaxpr.ops, x),
   dtype |-> jaxpr.dtype]

CacheHit(cache, key) == \E e \in cache : e.key = key
CacheGet(cache, key) == (CHOOSE e \in cache : e.key = key).jaxpr
CacheInsertNothing(cache, key, jaxpr) == cache
CacheInsert(cache, key, jaxpr) == cache \cup {[key |-> key, jaxpr |-> jaxpr]}
CacheKeys(cache) == {e.key : e \in cache}

ScalarValues == (-1)..MaxX
ExampleVectors == {<<1, 2, 3>>, <<4, 5, 6>>, <<2, 3, 4>>}
VectorData == (UNION { [1..n -> Elems] : n \in 0..MaxLen }) \cup ExampleVectors
DTypes == {"int", "float"}

ArgsOf(fn) ==
  CASE fn \in {"f_double", "f_branch", "g_and"} ->
         { [x |-> Scalar(v, dt), n |-> 0] : v \in ScalarValues, dt \in DTypes }
    [] fn \in {"g_sum", "f_square"} ->
         { [x |-> Vector(d, dt), n |-> 0] : d \in VectorData, dt \in DTypes }
    [] fn = "f_static" ->
         { [x |-> Scalar(v, "float"), n |-> 0] : v \in ScalarValues }
    [] fn = "f_loop" ->
         UNION { { [x |-> Vector(d, "float"), n |-> n] : n \in 0..Len(d) } : d \in VectorData }

(***************************************************************************)
(* Structured control flow (part_001): the Python equivalent of lax.cond   *)
(* and lax.cond itself.  A branch function is one of the notebook's        *)
(* one-argument lambdas; a result carries the branch functions called.     *)
(***************************************************************************)
\* x + c for a Python number c
PyAddC(x, c) ==
  IF x.kind = "concrete"
    THEN [x EXCEPT !.data = [i \in 1..Len(x.data) |-> x.data[i] + c]]
    ELSE [x EXCEPT !.ops = Append(x.ops, Op("add", c))]

BranchFunctions == {"inc", "dec", "f1"}

\* lambda x: x+1, lambda x: x-1, def f1(x): return 2*x
BranchBody(f, x) ==
  CASE f = "inc" -> PyAddC(x, 1)
    [] f = "dec" -> PyAddC(x, -1)
    [] f = "f1"  -> PyMulC(2, "int", x)

\* def cond(pred, true_fun, false_fun, arg)
CondSwapped(pred, true_fun, false_fun, arg) ==
  IF pred
    THEN [val |-> BranchBody(false_fun, Concrete(arg)).data, calls |-> <<"false_fun">>]
    ELSE [val |-> BranchBody(true_fun, Concrete(arg)).data, calls |-> <<"true_fun">>]
Cond(pred, true_fun, false_fun, arg) ==
  IF pred
    THEN [val |-> BranchBody(true_fun, Concrete(arg)).data, calls |-> <<"true_fun">>]
    ELSE [val |-> BranchBody(false_fun, Concrete(arg)).data, calls |-> <<"false_fun">>]

\* The compiled form of a branch: the function traced on the operand.
TraceBranch(f, operand) ==
  LET v == BranchBody(f, TracerArg(operand)) IN
  [base |-> v.base, ops |-> v.ops, dtype |-> v.dtype]

\* Running a compiled branch.
RECURSIVE ExecBranchOps(_, _)
ExecBranchOps(acc, ops) ==
  IF ops = << >> THEN acc
  ELSE LET o == Head(ops) IN
       ExecBranchOps([i \in 1..Len(acc) |->
                        IF o.op = "add" THEN acc[i] + o.k ELSE acc[i] * o.k],
                     Tail(ops))

\* lax.cond(pred, true_fun, false_fun, operand): both branches are traced,
\* the one pred selects is run.
LaxCond(pred, true_fun, false_fun, operand) ==
  LET jt == TraceBranch(true_fun, operand)
      jf == TraceBranch(false_fun, operand)
  IN [val |-> ExecBranchOps(operand.data, IF pred THEN jt.ops ELSE jf.ops),
      calls |-> <<"true_fun", "false_fun">>]

Operand == Vector(<<0>>, "float")           \* operand = jnp.array([0.])

CondInputs ==
  { [kind |-> "cond", pred |-> p, true_fun |-> t, false_fun |-> f, arg |-> Vector(d, "float")] :
      p \in BOOLEAN, t \in BranchFunctions, f \in BranchFunctions, d \in VectorData }

IdleVmap == vin = [kind |-> "none"] /\ vout = [op |-> "none"]
IdleJit  ==
  /\ jfn = "none" /\ jcache = {} /\ jcompiles = 0 /\ jcalls = 0
  /\ jlast = [call |-> "none"] /\ jseen = {}
IdleCond == cin = [kind |-> "none"] /\ cout = [op |-> "none"]
IdleWhile == wl = [kind |-> "none"]
IdleNotebook == nb = "none" /\ pc = 0 /\ env = {} /\ status = "idle" /\ unbound = {}

\* A fresh interpreter opens one notebook: no global is bound yet.
InitNotebook ==
  /\ nb \in NotebookNames
  /\ pc = 0
  /\ env = {}
  /\ status = "running"
  /\ unbound = {}
  /\ IdleVmap /\ IdleJit /\ IdleCond /\ IdleWhile

\* Run the next code cell of the notebook (Run All stops at the first error).
RunCell ==
  /\ status = "running"
  /\ pc < Len(Notebooks[nb])
  /\ LET r == RunStatements(env, Notebooks[nb][pc + 1]) IN
       /\ env' = r.env
       /\ unbound' = r.unbound
       /\ pc' = pc + 1
       /\ status' = IF r.unbound # {} THEN "NameError"
                    ELSE IF pc + 1 = Len(Notebooks[nb]) THEN "done" ELSE "running"
  /\ UNCHANGED <<nb, vmapVars, jitVars, condVars, whileVars>>

NextNotebook == RunCell

SpecNotebook == InitNotebook /\ [][NextNotebook]_vars

\* C1: each notebook is self-contained: run top to bottom in a fresh
\* interpreter, no cell reads a name that no import or earlier cell of the
\* same notebook has bound (no run ends in NameError).
C1_SelfContained == status # "NameError" /\ unbound = {}

\* The cell the run of part_000 stops in: its third code cell reads params,
\* data, loss_fn and lr, which this notebook never binds.
C1_MetaLossCellReached ==
  /\ nb = "HigherOrderDerivatives" /\ pc = 3 /\ status = "NameError"
  /\ unbound = {"params", "data", "loss_fn", "lr"}
  /\ unbound \cap BoundElsewhere(nb) = {"params", "loss_fn", "lr"}

(***************************************************************************)
(* SpecVmap: one input (a vector and a weight, or a batch of each) and the *)
(* calls the notebook makes on it.                                         *)
(***************************************************************************)
InitVmap ==
  /\ vin \in SingleInputs \cup BatchInputs
  /\ vout = [op |-> "none"]
  /\ IdleNotebook /\ IdleJit /\ IdleCond /\ IdleWhile

\* convolve(x, w)
CallConvolve ==
  /\ vin.kind = "single"
  /\ vout' = [op |-> "convolve", res |-> Convolve(vin.x, vin.w),
              reads |-> ConvolveReads(vin.x)]
  /\ UNCHANGED <<vin, nbVars, jitVars, condVars, whileVars>>

\* manually_batched_convolve(xs, ws)
CallManuallyBatched ==
  /\ vin.kind = "batch"
  /\ vout' = [op |-> "manually_batched", res |-> ManuallyBatchedConvolve(vin.xs, vin.ws)]
  /\ UNCHANGED <<vin, nbVars, jitVars, condVars, whileVars>>

\* manually_vectorized_convolve(xs, ws)
CallManuallyVectorized ==
  /\ vin.kind = "batch"
  /\ vout' = [op |-> "manually_vectorized", res |-> ManuallyVectorizedConvolve(vin.xs, vin.ws)]
  /\ UNCHANGED <<vin, nbVars, jitVars, condVars, whileVars>>

\* auto_batch_convolve(xs, ws)
CallAutoBatch ==
  /\ vin.kind = "batch"
  /\ vout' = [op |-> "auto_batch", res |-> AutoBatchConvolve(vin.xs, vin.ws)]
  /\ UNCHANGED <<vin, nbVars, jitVars, condVars, whileVars>>

\* xst = jnp.transpose(xs); wst = jnp.transpose(ws); auto_batch_convolve2(xst, wst)
\* (a batch of empty vectors has no transpose in this representation)
CallAutoBatch2 ==
  /\ vin.kind = "batch"
  /\ Len(vin.xs[1]) >= 1
  /\ vout' = [op |-> "auto_batch2",
              res |-> AutoBatchConvolve2(Transpose(vin.xs), Transpose(vin.ws))]
  /\ UNCHANGED <<vin, nbVars, jitVars, condVars, whileVars>>

NextVmap ==
  \/ CallConvolve
  \/ CallManuallyBatched
  \/ CallManuallyVectorized
  \/ CallAutoBatch
  \/ CallAutoBatch2

SpecVmap == InitVmap /\ [][NextVmap]_vars

\* Row i of the batched result: convolve(xs[i], ws[i]).
RowWise(xs, ws) == [i \in 1..Len(xs) |-> Convolve(xs[i], ws[i]).val]

\* C2: convolve(x, w) with len(w) = 3 returns max(len(x) - 2, 0) elements,
\* element j being x[j]*w[0] + x[j+1]*w[1] + x[j+2]*w[2]; every index its
\* windows ask for lies in 0..len(x)-1; convolve([0,1,2,3,4], [2,3,4]) is
\* [11, 20, 29].
C2_Convolve ==
  vout.op = "convolve" =>
    LET x == vin.x
        w == vin.w
        out == vout.res
    IN /\ out.err = "none"
       /\ Len(out.val) = Max(Len(x) - 2, 0)
       /\ \A j \in 1..Len(out.val) :
            out.val[j] = x[j] * w[1] + x[j + 1] * w[2] + x[j + 2] * w[3]
       /\ vout.reads \subseteq 0..(Len(x) - 1)
       /\ (x = ExampleX /\ w = ExampleW => out.val = <<11, 20, 29>>)

C2_ExampleConvolved ==
  /\ vout.op = "convolve"
  /\ vin.x = <<0, 1, 2, 3, 4>> /\ vin.w = <<2, 3, 4>>
  /\ vout.res = Ok(<<11, 20, 29>>)
  /\ vout.reads = 0..4

\* C3: for a batch of B >= 1 rows of length N >= 3 and B weight rows,
\* manually_batched_convolve, manually_vectorized_convolve and
\* jax.vmap(convolve) all return the B x (N-2) array whose row i is
\* convolve(xs[i], ws[i]).
C3_BatchedFormsAgree ==
  (vout.op \in {"manually_batched", "manually_vectorized", "auto_batch"}
     /\ Len(vin.xs[1]) >= 3) =>
    /\ vout.res.err = "none"
    /\ Len(vout.res.val) = Len(vin.xs)
    /\ \A i \in 1..Len(vin.xs) : Len(vout.res.val[i]) = Len(vin.xs[1]) - 2
    /\ vout.res.val = RowWise(vin.xs, vin.ws)
    /\ (vin.xs = <<ExampleX, ExampleX>> /\ vin.ws = <<ExampleW, ExampleW>>
          => vout.res.val = << <<11, 20, 29>>, <<11, 20, 29>> >>)

C3_VectorizedOnTwoRows ==
  /\ vout.op = "manually_vectorized"
  /\ Len(vin.xs) = 2 /\ Len(vin.xs[1]) = 4
  /\ vin.ws[1] # vin.ws[2]
  /\ vout.res.err = "none"
  /\ vout.res.val[1] # vout.res.val[2]
  /\ vout.res.val[1][1] # vout.res.val[1][2]

\* C4: with the batch on axis 1 of inputs and output,
\* jax.vmap(convolve, in_axes=1, out_axes=1)(transpose(xs), transpose(ws)) is
\* the transpose of jax.vmap(convolve)(xs, ws): its column i is
\* convolve(xs[i], ws[i]).
C4_Axis1IsTranspose ==
  vout.op = "auto_batch2" =>
    /\ vout.res.err = "none"
    /\ vout.res.val = Transpose(AutoBatchConvolve(vin.xs, vin.ws).val)
    /\ \A j \in 1..Len(vout.res.val) :
         /\ Len(vout.res.val[j]) = Len(vin.xs)
         /\ \A i \in 1..Len(vin.xs) :
              vout.res.val[j][i] = Convolve(vin.xs[i], vin.ws[i]).val[j]

C4_ExampleTransposed ==
  /\ vout.op = "auto_batch2"
  /\ vin.xs = <<ExampleX, ExampleX>> /\ vin.ws = <<ExampleW, ExampleW>>
  /\ vout.res = Ok(<< <<11, 11>>, <<20, 20>>, <<29, 29>> >>)

(***************************************************************************)
(* SpecJit: one jit-wrapped function of the notebook, called up to         *)
(* MaxCalls times.                                                         *)
(***************************************************************************)
InitJit ==
  /\ jfn \in JitFunctions
  /\ jcache = {}
  /\ jcompiles = 0
  /\ jcalls = 0
  /\ jlast = [call |-> "none"]
  /\ jseen = {}
  /\ IdleNotebook /\ IdleVmap /\ IdleCond /\ IdleWhile

\* A call of the jit-wrapped function fn: compiled code for the call's key is
\* run if the cache holds it; otherwise the function is traced and, unless
\* tracing raises, compiled, stored and run.
JitCall(fn) ==
  /\ jfn = fn
  /\ jcalls < MaxCalls
  /\ \E args \in ArgsOf(fn) :
       LET key == KeyOf(fn, args) IN
       /\ jseen' = jseen \cup {<<args.x.shape, args.x.dtype>>}
       /\ IF CacheHit(jcache, key)
            THEN /\ jlast' = [call |-> fn, args |-> args, compiled |-> FALSE,
                              jaxpr |-> CacheGet(jcache, key),
                              res |-> Exec(CacheGet(jcache, key), args.x)]
                 /\ UNCHANGED <<jcache, jcompiles>>
            ELSE LET t == Trace(fn, args) IN
                 IF t.err # "none"
                   THEN /\ jlast' = [call |-> fn, args |-> args, compiled |-> FALSE,
                                     jaxpr |-> << >>,
                                     res |-> [err |-> t.err, data |-> << >>, dtype |-> "none"]]
                        /\ UNCHANGED <<jcache, jcompiles>>
                   ELSE /\ jcache' = CacheInsert(jcache, key, t.jaxpr)
                        /\ jcompiles' = jcompiles + 1
                        /\ jlast' = [call |-> fn, args |-> args, compiled |-> TRUE,
                                     jaxpr |-> t.jaxpr,
                                     res |-> Exec(t.jaxpr, args.x)]
  /\ jcalls' = jcalls + 1
  /\ UNCHANGED <<jfn, nbVars, vmapVars, condVars, whileVars>>

CallFDouble == JitCall("f_double")
CallGSum    == JitCall("g_sum")
CallFSquare == JitCall("f_square")
CallFBranch == JitCall("f_branch")
CallGAnd    == JitCall("g_and")
CallFStatic == JitCall("f_static")
CallFLoop   == JitCall("f_loop")

NextJit ==
  \/ CallFDouble
  \/ CallGSum
  \/ CallFSquare
  \/ CallFBranch
  \/ CallGAnd
  \/ CallFStatic
  \/ CallFLoop

SpecJit == InitJit /\ [][NextJit]_vars

\* C5: a call of a jit-compiled function whose Python control flow (`if x < 3`,
\* or an `and` of comparisons) depends on the value of a non-static argument
\* ends in TracerBoolConversionError, raised while tracing, and returns no
\* result, whatever value is passed; nothing is compiled.
C5_TracerBoolError ==
  jlast.call \in {"f_branch", "g_and"} =>
    /\ jlast.res.err = "TracerBoolConversionError"
    /\ jlast.res.data = << >>
    /\ ~jlast.compiled
    /\ jcache = {} /\ jcompiles = 0

\* f(2) of the commented-out cell raises, though the same body called without
\* jit returns 12.
C5_FBranchOfTwoRaised ==
  /\ jlast.call = "f_branch"
  /\ jlast.args.x = Scalar(2, "int")
  /\ jlast.res.err = "TracerBoolConversionError"
  /\ PyEval("f_branch", jlast.args).data = <<12>>

C8_StaticBranch ==
  jlast.call = "f_static" =>
    LET x == jlast.args.x.data[1] IN
    /\ jlast.res.err = "none"
    /\ x < 3  => jlast.res.data = <<3 * x * x>>
    /\ x >= 3 => jlast.res.data = <<(-4) * x>>
    /\ x = 3  => jlast.res.data = <<-12>>
    /\ x = 2  => jlast.res.data = <<12>> /\ jlast.res.dtype = "float"

\* f(2.) printed 12.0, here after a call with another value of x.
C8_FStaticOfTwo ==
  /\ jlast.call = "f_static" /\ jcalls = 2
  /\ jlast.args.x = Scalar(2, "float")
  /\ jlast.compiled
  /\ jlast.res = [err |-> "none", data |-> <<12>>, dtype |-> "float"]

\* C9: with n static, f_jitted(x, n) unrolls the loop exactly n times and
\* returns x[0] + ... + x[n-1] for 0 <= n <= len(x), 0.0 for n = 0;
\* f_jitted([2,3,4], 2) is 5.0.
C9_StaticLoopUnrolled ==
  jlast.call = "f_loop" =>
    LET x == jlast.args.x.data
        n == jlast.args.n
    IN /\ jlast.res.err = "none"
       /\ Len(jlast.jaxpr.ops) = n
       /\ \A i \in 1..n : jlast.jaxpr.ops[i] = Op("add_index", i - 1)
       /\ jlast.res.data = <<SumSeq(SubSeq(x, 1, n))>>
       /\ jlast.res.dtype = "float"
       /\ n = 0 => jlast.res.data = <<0>>
       /\ (x = <<2, 3, 4>> /\ n = 2) => jlast.res.data = <<5>>

\* f_jitted([2,3,4], 2) printed 5.0, here after a call with another n.
C9_FLoopExample ==
  /\ jlast.call = "f_loop" /\ jcalls = 2 /\ jcompiles = 2
  /\ jlast.args.x = Vector(<<2, 3, 4>>, "float") /\ jlast.args.n = 2
  /\ jlast.res = [err |-> "none", data |-> <<5>>, dtype |-> "float"]

(***************************************************************************)
(* SpecCond: one choice of predicate, branches and operand, and the two    *)
(* conditionals called on it.                                              *)
(***************************************************************************)
InitCond ==
  /\ cin \in CondInputs
  /\ cout = [op |-> "none"]
  /\ IdleNotebook /\ IdleVmap /\ IdleJit /\ IdleWhile

\* cond(pred, true_fun, false_fun, arg)
CallCond ==
  /\ cin.kind = "cond"
  /\ cout' = [op |-> "cond", res |-> Cond(cin.pred, cin.true_fun, cin.false_fun, cin.arg)]
  /\ UNCHANGED <<cin, nbVars, vmapVars, jitVars, whileVars>>

\* lax.cond(pred, true_fun, false_fun, operand)
CallLaxCond ==
  /\ cin.kind = "cond"
  /\ cout' = [op |-> "lax.cond", res |-> LaxCond(cin.pred, cin.true_fun, cin.false_fun, cin.arg)]
  /\ UNCHANGED <<cin, nbVars, vmapVars, jitVars, whileVars>>

NextCond ==
  \/ CallCond
  \/ CallLaxCond

SpecCond == InitCond /\ [][NextCond]_vars

\* What a branch function returns, element by element.
BranchValue(f, d) ==
  [i \in 1..Len(d) |-> IF f = "inc" THEN d[i] + 1 ELSE IF f = "dec" THEN d[i] - 1 ELSE 2 * d[i]]

\* C10: cond(pred, true_fun, false_fun, arg) calls exactly one of the two
\* branch functions and returns true_fun(arg) when pred is true, false_fun(arg)
\* otherwise; lax.cond returns the same value; with branches x+1 and x-1 on
\* operand [0], True gives [1] and False gives [-1].
C10_CondSelectsOneBranch ==
  LET expected == BranchValue(IF cin.pred THEN cin.true_fun ELSE cin.false_fun, cin.arg.data) IN
  /\ cout.op = "cond" =>
       /\ cout.res.calls = <<IF cin.pred THEN "true_fun" ELSE "false_fun">>
       /\ cout.res.val = expected
  /\ cout.op = "lax.cond" =>
       /\ cout.res.val = expected
       /\ cout.res.val = Cond(cin.pred, cin.true_fun, cin.false_fun, cin.arg).val
  /\ (cout.op # "none" /\ cin.true_fun = "inc" /\ cin.false_fun = "dec" /\ cin.arg = Operand) =>
       cout.res.val = IF cin.pred THEN <<1>> ELSE <<-1>>

\* lax.cond(False, lambda x: x+1, lambda x: x-1, operand) of the notebook.
C10_LaxCondFalseExample ==
  /\ cout.op = "lax.cond"
  /\ ~cin.pred /\ cin.true_fun = "inc" /\ cin.false_fun = "dec" /\ cin.arg = Operand
  /\ cout.res.val = <<-1>>

(***************************************************************************)
(* while_loop (part_001): the Python equivalent of lax.while_loop and      *)
(* lax.while_loop itself.  A step is one evaluation of the loop test or    *)
(* one call of the body.                                                   *)
(***************************************************************************)
MaxInit == 12        \* init_val ranges over -MaxNeg..MaxInit
MaxNeg  == 3
MaxIter == 16        \* body calls followed in a run that never leaves the loop

WhileKinds == {"while_loop", "lax.while_loop"}

\* function_body = lambda x: x + 1; def f1(x): return 2*x; lambda x: x
WhileBodies == {"inc", "f1", "id"}

WhileBodyFun(f, x) ==
  CASE f = "inc" -> PyAddC(x, 1)
    [] f = "f1"  -> PyMulC(2, "int", x)
    [] f = "id"  -> x

\* condition = lambda x: x < 10
ConditionLe(v) == PyLe(Concrete(Scalar(v, "int")), 10).b
Condition(v) == PyLt(Concrete(Scalar(v, "int")), 10).b

\* val = body_fun(val): called on the value by while_loop; traced once and
\* the traced computation run on the value by lax.while_loop.
BodyCall(kind, f, v) ==
  IF kind = "while_loop"
    THEN WhileBodyFun(f, Concrete(Scalar(v, "int"))).data[1]
    ELSE ExecBranchOps(<<v>>, WhileBodyFun(f, TracerArg(Scalar(v, "int"))).ops)[1]

\* 2*x from a negative init_val decreases for ever; those runs are left out.
WhileInputs ==
  { [kind |-> k, body |-> f, init |-> i] :
      k \in WhileKinds, f \in WhileBodies, i \in (-MaxNeg)..MaxInit } \
  { [kind |-> k, body |-> "f1", init |-> i] : k \in WhileKinds, i \in (-MaxNeg)..(-1) }

\* while_loop(cond_fun, body_fun, init_val) entered: val = init_val
InitWhile ==
  /\ \E c \in WhileInputs :
       wl = [kind |-> c.kind, body |-> c.body, init |-> c.init,
             val |-> c.init, pc |-> "test", calls |-> 0]
  /\ IdleNotebook /\ IdleVmap /\ IdleJit /\ IdleCond

\* while cond_fun(val): ... / return val
WhileTest ==
  /\ wl.kind # "none" /\ wl.pc = "test"
  /\ wl' = [wl EXCEPT !.pc = IF Condition(wl.val) THEN "body" ELSE "done"]
  /\ UNCHANGED <<nbVars, vmapVars, jitVars, condVars>>

\* val = body_fun(val)
WhileBody ==
  /\ wl.kind # "none" /\ wl.pc = "body"
  /\ wl.calls < MaxIter
  /\ wl' = [wl EXCEPT !.val = BodyCall(wl.kind, wl.body, wl.val),
                      !.calls = wl.calls + 1,
                      !.pc = "test"]
  /\ UNCHANGED <<nbVars, vmapVars, jitVars, condVars>>

NextWhile ==
  \/ WhileTest
  \/ WhileBody

SpecWhile == InitWhile /\ [][NextWhile]_vars

\* The interpreter keeps running the loop.
SpecWhileFair == SpecWhile /\ WF_vars(NextWhile)

\* The k-th value of the sequence init_val, body_fun(init_val), ...
RECURSIVE Iterate(_, _, _)
Iterate(f, v, k) ==
  IF k = 0 THEN v
  ELSE LET u == Iterate(f, v, k - 1) IN
       IF f = "inc" THEN u + 1 ELSE IF f = "f1" THEN 2 * u ELSE u

WhileLoopReturnsFirstFalse ==
  wl.kind # "none" =>
    /\ wl.val = Iterate(wl.body, wl.init, wl.calls)
    /\ \A k \in 0..(wl.calls - 1) : Iterate(wl.body, wl.init, k) < 10
    /\ ~(wl.init < 10) => wl.calls = 0
    /\ wl.pc = "done" =>
         /\ ~(wl.val < 10)
         /\ ~(wl.init < 10) => wl.val = wl.init
         /\ wl.body = "inc" => wl.val = (IF wl.init > 10 THEN wl.init ELSE 10)
         /\ (wl.body = "inc" /\ wl.init = 0) => (wl.val = 10 /\ wl.calls = 10)

\* C11: while_loop(cond_fun, body_fun, init_val) returns the first value of
\* the sequence init_val, body_fun(init_val), ... for which cond_fun is false,
\* and init_val with no body call when cond_fun(init_val) is false; with
\* cond x < 10 and body x + 1 it terminates for every integer init_val and
\* returns max(init_val, 10): 10 from 0.
C11_WhileLoop ==
  /\ [] WhileLoopReturnsFirstFalse
  /\ [] ((wl.kind # "none" /\ wl.body = "inc") => <> (wl.pc = "done"))

\* lax.while_loop(condition, function_body, 0) of the notebook returned 10
\* after ten body calls.
C11_WhileFromZeroReturnsTen ==
  /\ wl.kind = "lax.while_loop" /\ wl.body = "inc" /\ wl.init = 0
  /\ wl.pc = "done" /\ wl.val = 10 /\ wl.calls = 10

====
